---- MODULE Spec2Model ----
\* Control loop of the Bluetooth mouse ring (src/code.py) with the battery
\* helper of src/left_ring/seeed_xiao_nrf52840.py.
\*
\* Time is counted in units of 5 ms, so that every configured interval is a
\* whole number.  time.monotonic_ns() is the origin of the time axis: a stored
\* deadline is kept as its offset from the current clock reading (positive =
\* still ahead, 0 = exactly now, negative = already passed), and the passing of
\* time lowers every stored offset.  Offsets below -1 are kept as -1, because
\* the code only ever compares a deadline with the clock.
\* Voltages are counted in units of 10 mV (4.2 V = 420).
EXTENDS Integers, Sequences, FiniteSets, TLC

VARIABLES
    pc,             \* position of the program in the main loop
    i,              \* LED blink interval counter
    scroll_sleep,   \* current scroll interval
    LEDOFF_TIME,    \* auto-off deadline of the LEDs, None or {offset}
    DEBOUNCE_TIME,  \* debounce deadline, None or {offset}
    blue_led,       \* LED pins, active low: FALSE = lit
    green_led,
    red_led,
    advertising,    \* radio: start_advertising called and not yet stopped
    mouse_buttons,  \* buttons held down in the HID report
    feed,           \* scripted battery readings still to be served, if any
    shown,          \* LED patterns displayed for the scripted readings
    adv_op,         \* advertising call made by the last step
    hid,            \* HID events emitted by the last step
    logged,         \* messages logged by the last step (level info and up)
    hk,             \* housekeeping branch taken by the last tick
    btn,            \* inputs read asserted by the last step
    sample,         \* battery sample taken by the last step, None or {record}
    nscroll,        \* accepted scroll actions since scroll_sleep was last initial
    link,           \* radio: a central is connected (what ble.connected reads)
    charge_current, \* config['charge_current']
    charge_speed    \* direction of the charge speed pin of the Battery object

vars == <<pc, i, scroll_sleep, LEDOFF_TIME, DEBOUNCE_TIME, blue_led, green_led,
          red_led, advertising, mouse_buttons, feed, shown, adv_op, hid,
          logged, hk, btn, sample, nscroll, link, charge_current,
          charge_speed>>

\* what the main loop never writes: the radio link and the battery set-up
outside == <<link, charge_current, charge_speed>>

-----------------------------------------------------------------------------
\* Bounds of the model

\* config['blink_interval'], scaled down from 20000 ticks
blink_interval == 2
\* the period of the debug log line (i % 1000), scaled down with it
debug_interval == 2
\* the user scrolls at most this many times without letting go of the wheel
MaxScrolls == 2
\* the longest run of wheel moves of the user who only scrolls
LongScroll == 14
\* the largest value tried for config['charge_current']
MaxChargeCurrent == 3
\* battery voltages of the pure-function check, in 10 mV
MinVolts == 340
MaxVolts == 430

-----------------------------------------------------------------------------
\* Configuration (src/code.py, config), in units of 5 ms

debounce_sleep == 30
sp_initial == 40
sp_accel == 3
sp_max == 2
\* get_delay_time(0.1) after every LED signal
ledoff_delay == 20
\* time.sleep(0.5) in the connecting blink
connect_sleep == 100

None == {}

Max(a, b) == IF a >= b THEN a ELSE b

\* time.monotonic_ns() + seconds, as an offset from the current clock reading
get_delay_time(seconds) == {seconds}

\* the deadline t after d more units of time have passed
Elapse(t, d) == {Max(x - d, -1) : x \in t}

\* LEDOFF_TIME is not None and LEDOFF_TIME < time.monotonic_ns()
Expired(t) == \E x \in t : x < 0

\* DEBOUNCE_TIME is not None and DEBOUNCE_TIME > time.monotonic_ns()
Debouncing(t) == \E x \in t : x > 0

\* what the clock may advance by between two steps
TimeSteps == {10}

-----------------------------------------------------------------------------
\* Battery related routines

batt_table ==
    (420 :> 100) @@ (413 :> 90) @@ (406 :> 80) @@ (399 :> 70) @@ (392 :> 60) @@
    (385 :> 50) @@ (378 :> 40) @@ (371 :> 30) @@ (364 :> 20) @@ (357 :> 10) @@
    (350 :> 0)

\* sorted(keys, reverse = True)
RECURSIVE sorted_reverse(_)
sorted_reverse(keys) ==
    IF keys = {} THEN <<>>
    ELSE LET k == CHOOSE x \in keys : \A y \in keys : y <= x
         IN  <<k>> \o sorted_reverse(keys \ {k})

\* the for loop of get_batt_percent over the remaining keys; the result is the
\* binding of the local variable percent when the loop ends, None if the loop
\* never bound it
RECURSIVE scan_table(_, _)
scan_table(keys, volts) ==
    IF keys = <<>> THEN None
    ELSE IF volts < Head(keys) THEN scan_table(Tail(keys), volts)
    ELSE {batt_table[Head(keys)]}

\* The value get_batt_percent returns, as {percent}; None when `return percent`
\* finds percent unbound and raises UnboundLocalError.
batt_keys == sorted_reverse(DOMAIN batt_table)

get_batt_percent(volts) == scan_table(batt_keys, volts)

\* battery_leds on one battery reading: the green and red pins afterwards, and
\* whether get_batt_percent raised (then no pin was touched)
battery_leds(volts, charge_status) ==
    LET percent == get_batt_percent(volts)
        same == [raised |-> FALSE, green |-> green_led, red |-> red_led]
    IN  IF percent = None THEN [same EXCEPT !.raised = TRUE]
        ELSE IF charge_status THEN [same EXCEPT !.green = FALSE]
        ELSE IF \E p \in percent : p > 79 THEN [same EXCEPT !.green = FALSE]
        ELSE IF \E p \in percent : p > 29
             THEN [same EXCEPT !.green = FALSE, !.red = FALSE]
        ELSE [same EXCEPT !.red = FALSE]

\* battery voltages the sensor reports to the main loop
SampleVolts == {340, 360, 371, 405, 406, 425}

\* battery.voltage and battery.charge_status as read by battery_leds in the
\* coming tick: the next scripted reading if a script is loaded, any reading
\* otherwise.  A tick that does not run battery_leds reads nothing.
NoReading == [volts |-> 0, charge_status |-> FALSE]

Readings ==
    IF i # blink_interval THEN {NoReading}
    ELSE IF feed = <<>> THEN [volts : SampleVolts, charge_status : BOOLEAN]
    ELSE {Head(feed)}

\* the LEDs that are lit, given the three pin values
Lit(blue, green, red) ==
    {l \in {"blue", "green", "red"} :
        \/ l = "blue" /\ blue = FALSE
        \/ l = "green" /\ green = FALSE
        \/ l = "red" /\ red = FALSE}

LitNow == Lit(blue_led, green_led, red_led)

\* as leds_off, but the blue LED is left as it is
leds_off_not_blue(cur) == [cur EXCEPT !.green = TRUE, !.red = TRUE]

\* leds_off, applied to the record of a tick in progress
leds_off(cur) == [cur EXCEPT !.blue = TRUE, !.green = TRUE, !.red = TRUE]

-----------------------------------------------------------------------------
\* One tick of the connected loop, first part: status LED housekeeping.
\* rd is the battery reading battery_leds would take in this tick.

Housekeeping(rd) ==
    LET cur == [blue |-> blue_led, green |-> green_led, red |-> red_led,
                ledoff |-> LEDOFF_TIME, i |-> i, hk |-> "idle",
                raised |-> FALSE, sample |-> None]
        batt == battery_leds(rd.volts, rd.charge_status)
        taken == [volts |-> rd.volts, charge_status |-> rd.charge_status,
                  percent |-> get_batt_percent(rd.volts)]
    IN  IF i = blink_interval * 2
        THEN [cur EXCEPT !.blue = FALSE,
                         !.ledoff = get_delay_time(ledoff_delay),
                         !.i = (-1) + 1, !.hk = "blink"]
        ELSE IF i = blink_interval
        THEN IF batt.raised
             THEN [cur EXCEPT !.raised = TRUE, !.hk = "battery",
                              !.sample = {taken}]
             ELSE [cur EXCEPT !.green = batt.green, !.red = batt.red,
                              !.ledoff = get_delay_time(ledoff_delay),
                              !.i = i + 1, !.hk = "battery",
                              !.sample = {taken}]
        ELSE IF i % debug_interval = 0
        THEN [cur EXCEPT !.i = i + 1, !.hk = "debug"]
        ELSE IF Expired(LEDOFF_TIME)
        THEN leds_off([cur EXCEPT !.ledoff = None, !.i = i + 1,
                                  !.hk = "lightsout"])
        ELSE [cur EXCEPT !.i = i + 1]

-----------------------------------------------------------------------------
\* One tick of the connected loop, second part: the button clicks.
\* asserted is the set of inputs that read low (pressed) in this tick.

Press(button) == [op |-> "press", arg |-> button]
Release(button) == [op |-> "release", arg |-> button]
Move(wheel) == [op |-> "move", arg |-> wheel]

\* the input each HID event belongs to
ButtonOf(e) ==
    IF e.arg = "LEFT_BUTTON" THEN "left"
    ELSE IF e.arg = "RIGHT_BUTTON" THEN "right"
    ELSE IF e.arg = "wheel=1" THEN "scrollup"
    ELSE "scrolldown"

\* as Accelerate, without the floor
AccelerateNoFloor(sleep) == sleep - sp_accel

\* scroll_sleep -= sp_accel, not below sp_max
Accelerate(sleep) ==
    IF sleep - sp_accel < sp_max THEN sp_max ELSE sleep - sp_accel

\* as Click, without the debounce check
ClickUngated(cur, button, spin) ==
    [cur EXCEPT !.debounce = get_delay_time(debounce_sleep),
                !.mouse = mouse_buttons \cup {button},
                !.hid = <<Press(button)>>,
                !.pc = spin]

\* as Click, but the loop goes on without waiting for the release
ClickWithoutWait(cur, button, spin) ==
    IF Debouncing(DEBOUNCE_TIME) THEN cur
    ELSE [cur EXCEPT !.debounce = get_delay_time(debounce_sleep),
                     !.mouse = mouse_buttons \cup {button},
                     !.hid = <<Press(button)>>]

\* the branch of a click button: press now, then wait for the release at `spin`
Click(cur, button, spin) ==
    IF Debouncing(DEBOUNCE_TIME) THEN cur
    ELSE [cur EXCEPT !.debounce = get_delay_time(debounce_sleep),
                     !.mouse = mouse_buttons \cup {button},
                     !.hid = <<Press(button)>>,
                     !.pc = spin]

\* as Scroll, without the debounce check
ScrollUngated(cur, wheel, message) ==
    [cur EXCEPT !.debounce = get_delay_time(Accelerate(scroll_sleep)),
                !.scroll = Accelerate(scroll_sleep),
                !.hid = <<Move(wheel)>>,
                !.logged = <<message>>,
                !.nscroll = nscroll + 1]

\* as Scroll, without the second assignment of DEBOUNCE_TIME
ScrollArmsBefore(cur, wheel, message) ==
    IF Debouncing(DEBOUNCE_TIME) THEN cur
    ELSE [cur EXCEPT !.debounce = get_delay_time(scroll_sleep),
                     !.scroll = Accelerate(scroll_sleep),
                     !.hid = <<Move(wheel)>>,
                     !.logged = <<message>>,
                     !.nscroll = nscroll + 1]

\* the branch of a scroll button: DEBOUNCE_TIME is set from scroll_sleep,
\* scroll_sleep is shortened, DEBOUNCE_TIME is set again from the shortened
\* scroll_sleep, then one wheel move is sent
Scroll(cur, wheel, message) ==
    IF Debouncing(DEBOUNCE_TIME) THEN cur
    ELSE LET armed == [cur EXCEPT !.debounce = get_delay_time(cur.scroll)]
             faster == [armed EXCEPT !.scroll = Accelerate(armed.scroll)]
         IN  [faster EXCEPT !.debounce = get_delay_time(faster.scroll),
                            !.hid = <<Move(wheel)>>,
                            !.logged = <<message>>,
                            !.nscroll = nscroll + 1]

\* as ResetScroll, but the reset is done and logged on every idle tick
ResetScrollAlways(cur) ==
    [cur EXCEPT !.scroll = sp_initial,
                !.logged = <<"scroll_sleep reset">>,
                !.nscroll = 0]

\* as ResetScroll, but scroll_sleep is left as it is
ResetScrollNever(cur) == cur

\* the final else: no button is pressed
ResetScroll(cur) ==
    IF scroll_sleep # sp_initial
    THEN [cur EXCEPT !.scroll = sp_initial,
                     !.logged = <<"scroll_sleep reset">>,
                     !.nscroll = 0]
    ELSE cur

\* the record of the tick before the buttons are looked at
Untouched ==
    [debounce |-> DEBOUNCE_TIME, scroll |-> scroll_sleep,
     mouse |-> mouse_buttons, hid |-> <<>>, logged |-> <<>>,
     pc |-> "loop", nscroll |-> nscroll]

\* as ButtonClicks, with the scroll buttons looked at before the click buttons
ButtonClicksScrollFirst(asserted) ==
    LET cur == Untouched
    IN  IF "scrollup" \in asserted
        THEN Scroll(cur, "wheel=1", "Up Button is pressed")
        ELSE IF "scrolldown" \in asserted
        THEN Scroll(cur, "wheel=-1", "Down Button is pressed")
        ELSE IF "left" \in asserted
        THEN Click(cur, "LEFT_BUTTON", "spin_left")
        ELSE IF "right" \in asserted
        THEN Click(cur, "RIGHT_BUTTON", "spin_right")
        ELSE ResetScroll(cur)

ButtonClicks(asserted) ==
    LET cur == Untouched
    IN  IF "left" \in asserted THEN Click(cur, "LEFT_BUTTON", "spin_left")
        ELSE IF "right" \in asserted
        THEN Click(cur, "RIGHT_BUTTON", "spin_right")
        ELSE IF "scrollup" \in asserted
        THEN Scroll(cur, "wheel=1", "Up Button is pressed")
        ELSE IF "scrolldown" \in asserted
        THEN Scroll(cur, "wheel=-1", "Down Button is pressed")
        ELSE ResetScroll(cur)

Inputs == {"left", "right", "scrollup", "scrolldown"}

\* the combinations of inputs the user may hold in the coming tick
Pressable ==
    IF nscroll < MaxScrolls THEN SUBSET Inputs ELSE SUBSET {"left", "right"}

-----------------------------------------------------------------------------
\* The Battery object: the charge currents it knows, and the setter of
\* charge_current, which raises ValueError on any other value

CHARGE_50MA == 0
CHARGE_100MA == 1

\* as charge_current_setter, but any other value selects 100 mA
charge_current_lenient(value, direction) ==
    IF value = CHARGE_50MA
    THEN [raised |-> FALSE, direction |-> "INPUT"]
    ELSE [raised |-> FALSE, direction |-> "OUTPUT"]

charge_current_setter(value, direction) ==
    IF value = CHARGE_50MA
    THEN [raised |-> FALSE, direction |-> "INPUT"]
    ELSE IF value = CHARGE_100MA
    THEN [raised |-> FALSE, direction |-> "OUTPUT"]
    ELSE [raised |-> TRUE, direction |-> direction]

-----------------------------------------------------------------------------
\* The state after the LEDs, buttons and counters are set up (Boot), and the
\* state at the top of the main loop with the default charge current (Start)

Boot ==
    /\ i = -1
    /\ scroll_sleep = sp_initial
    /\ LEDOFF_TIME = None
    /\ DEBOUNCE_TIME = None
    /\ blue_led = TRUE
    /\ green_led = TRUE
    /\ red_led = TRUE
    /\ advertising = FALSE
    /\ mouse_buttons = {}
    /\ shown = <<>>
    /\ adv_op = "none"
    /\ hid = <<>>
    /\ logged = <<>>
    /\ hk = "none"
    /\ btn = {}
    /\ sample = None
    /\ nscroll = 0

Start ==
    /\ Boot
    /\ pc = "top"
    /\ charge_current = CHARGE_50MA
    /\ charge_speed = "INPUT"

Init == Start /\ feed = <<>> /\ link \in BOOLEAN

\* what every step outside a tick leaves of the last tick's record
NoTick == hk' = "none" /\ btn' = {} /\ sample' = None

\* while True: if not ble.connected: start_advertising
Top(connected) ==
    /\ pc = "top"
    /\ IF connected
       THEN /\ pc' = "loop"
            /\ adv_op' = "none"
            /\ logged' = <<>>
            /\ UNCHANGED advertising
       ELSE /\ pc' = "wait"
            /\ advertising' = TRUE
            /\ adv_op' = "start"
            /\ logged' = <<"Advertising...">>
    /\ hid' = <<>>
    /\ NoTick
    /\ UNCHANGED <<i, scroll_sleep, LEDOFF_TIME, DEBOUNCE_TIME, blue_led,
                   green_led, red_led, mouse_buttons, feed, shown, nscroll,
                   outside>>

\* as Wait, but the loop ends without stop_advertising
WaitWithoutStop(connected) ==
    /\ pc = "wait"
    /\ IF connected
       THEN /\ pc' = "loop"
            /\ logged' = <<"Connected">>
            /\ UNCHANGED blue_led
       ELSE /\ pc' = "blink"
            /\ blue_led' = FALSE
            /\ logged' = <<"Connecting...">>
    /\ adv_op' = "none"
    /\ hid' = <<>>
    /\ NoTick
    /\ UNCHANGED <<i, scroll_sleep, LEDOFF_TIME, DEBOUNCE_TIME, green_led,
                   red_led, advertising, mouse_buttons, feed, shown, nscroll,
                   outside>>

\* while not ble.connected: the blue LED goes on, or the loop ends and
\* advertising stops
Wait(connected) ==
    /\ pc = "wait"
    /\ IF connected
       THEN /\ pc' = "loop"
            /\ advertising' = FALSE
            /\ adv_op' = "stop"
            /\ logged' = <<"Connected">>
            /\ UNCHANGED blue_led
       ELSE /\ pc' = "blink"
            /\ blue_led' = FALSE
            /\ adv_op' = "none"
            /\ logged' = <<"Connecting...">>
            /\ UNCHANGED advertising
    /\ hid' = <<>>
    /\ NoTick
    /\ UNCHANGED <<i, scroll_sleep, LEDOFF_TIME, DEBOUNCE_TIME, green_led,
                   red_led, mouse_buttons, feed, shown, nscroll,
                   outside>>

\* the rest of one connecting blink: sleep, blue LED off, sleep
Blink ==
    /\ pc = "blink"
    /\ pc' = "wait"
    /\ blue_led' = TRUE
    /\ LEDOFF_TIME' = Elapse(Elapse(LEDOFF_TIME, connect_sleep), connect_sleep)
    /\ DEBOUNCE_TIME' =
           Elapse(Elapse(DEBOUNCE_TIME, connect_sleep), connect_sleep)
    /\ adv_op' = "none"
    /\ hid' = <<>>
    /\ logged' = <<>>
    /\ NoTick
    /\ UNCHANGED <<i, scroll_sleep, green_led, red_led, advertising,
                   mouse_buttons, feed, shown, nscroll,
                   outside>>

\* as Lost, but advertising is started on the way out as well
LostRestartsAdvertising ==
    /\ pc = "loop"
    /\ ~link
    /\ pc' = "top"
    /\ advertising' = TRUE
    /\ adv_op' = "start"
    /\ hid' = <<>>
    /\ logged' = <<"Not Connected (lost connection)">>
    /\ NoTick
    /\ UNCHANGED <<i, scroll_sleep, LEDOFF_TIME, DEBOUNCE_TIME, blue_led,
                   green_led, red_led, mouse_buttons, feed, shown, nscroll,
                   outside>>

\* while ble.connected fails: the link is lost
Lost ==
    /\ pc = "loop"
    /\ ~link
    /\ pc' = "top"
    /\ adv_op' = "none"
    /\ hid' = <<>>
    /\ logged' = <<"Not Connected (lost connection)">>
    /\ NoTick
    /\ UNCHANGED <<i, scroll_sleep, LEDOFF_TIME, DEBOUNCE_TIME, blue_led,
                   green_led, red_led, advertising, mouse_buttons, feed, shown,
                   nscroll,
                   outside>>

\* the body of while ble.connected: housekeeping, then the buttons; an
\* exception of battery_leds ends the program before the buttons are read
Iteration(rd, asserted) ==
    /\ pc = "loop"
    /\ \E h \in {Housekeeping(rd)}, b \in {ButtonClicks(asserted)} :
           /\ hk' = h.hk
           /\ sample' = h.sample
           /\ blue_led' = h.blue
           /\ green_led' = h.green
           /\ red_led' = h.red
           /\ LEDOFF_TIME' = h.ledoff
           /\ i' = h.i
           /\ IF h.hk = "battery" /\ feed # <<>>
              THEN /\ feed' = Tail(feed)
                   /\ shown' = IF h.raised THEN shown
                               ELSE Append(shown, Lit(h.blue, h.green, h.red))
              ELSE UNCHANGED <<feed, shown>>
           /\ IF h.raised
              THEN /\ pc' = "crashed"
                   /\ btn' = {}
                   /\ hid' = <<>>
                   /\ logged' = <<>>
                   /\ UNCHANGED <<DEBOUNCE_TIME, scroll_sleep, mouse_buttons,
                                  nscroll>>
              ELSE /\ pc' = b.pc
                   /\ btn' = asserted
                   /\ hid' = b.hid
                   /\ logged' = (IF h.hk = "battery" THEN <<"Voltage">>
                                 ELSE <<>>) \o b.logged
                   /\ DEBOUNCE_TIME' = b.debounce
                   /\ scroll_sleep' = b.scroll
                   /\ mouse_buttons' = b.mouse
                   /\ nscroll' = b.nscroll
    /\ adv_op' = "none"
    /\ UNCHANGED <<advertising, outside>>

\* as Tick, but the body runs whatever the radio reports
TickUnchecked(rd, asserted) == Iteration(rd, asserted)

\* one iteration of while ble.connected: the radio reports a connection and
\* the body runs
Tick(rd, asserted) == link /\ Iteration(rd, asserted)

\* while left_BTN.value is False: pass, and the same for the right button:
\* the input is read again; the release is sent once it reads high
Spin(at, input, button, message, value) ==
    /\ pc = at
    /\ IF value = FALSE
       THEN /\ btn' = {input}
            /\ hid' = <<>>
            /\ logged' = <<>>
            /\ UNCHANGED <<pc, mouse_buttons>>
       ELSE /\ btn' = {}
            /\ pc' = "loop"
            /\ mouse_buttons' = mouse_buttons \ {button}
            /\ hid' = <<Release(button)>>
            /\ logged' = <<message>>
    /\ adv_op' = "none"
    /\ hk' = "none"
    /\ sample' = None
    /\ UNCHANGED <<i, scroll_sleep, LEDOFF_TIME, DEBOUNCE_TIME, blue_led,
                   green_led, red_led, advertising, feed, shown, nscroll,
                   outside>>

SpinLeft(value) ==
    Spin("spin_left", "left", "LEFT_BUTTON", "Left Button is pressed", value)

SpinRight(value) ==
    Spin("spin_right", "right", "RIGHT_BUTTON", "Right Button is pressed",
         value)

\* the clock moves on by d between two ticks of the connected loop, or while
\* the program waits for a button to be released
Advance(d) ==
    /\ pc \in {"loop", "spin_left", "spin_right"}
    /\ LEDOFF_TIME' = Elapse(LEDOFF_TIME, d)
    /\ DEBOUNCE_TIME' = Elapse(DEBOUNCE_TIME, d)
    /\ adv_op' = "none"
    /\ hid' = <<>>
    /\ logged' = <<>>
    /\ NoTick
    /\ UNCHANGED <<pc, i, scroll_sleep, blue_led, green_led, red_led,
                   advertising, mouse_buttons, feed, shown, nscroll,
                   outside>>

\* the radio: the central connects or the link drops, at any moment
Radio ==
    /\ pc # "crashed"
    /\ link' = ~link
    /\ adv_op' = "none"
    /\ hid' = <<>>
    /\ logged' = <<>>
    /\ NoTick
    /\ UNCHANGED <<pc, i, scroll_sleep, LEDOFF_TIME, DEBOUNCE_TIME, blue_led,
                   green_led, red_led, advertising, mouse_buttons, feed, shown,
                   nscroll, charge_current, charge_speed>>

Next ==
    \/ Radio
    \/ Top(link)
    \/ Wait(link)
    \/ Blink
    \/ Lost
    \/ \E rd \in Readings, asserted \in Pressable : Tick(rd, asserted)
    \/ \E value \in BOOLEAN : SpinLeft(value)
    \/ \E value \in BOOLEAN : SpinRight(value)
    \/ \E d \in TimeSteps : Advance(d)

Spec == Init /\ [][Next]_vars

-----------------------------------------------------------------------------
\* get_batt_percent on its own: one call on any voltage between MinVolts
\* and MaxVolts.  The argument is the one reading of the script.

Volts == MinVolts .. MaxVolts

InitBatt ==
    /\ Start
    /\ link = FALSE
    /\ feed \in {<<rd>> : rd \in [volts : Volts, charge_status : BOOLEAN]}

CallPercent ==
    /\ pc = "top"
    /\ feed # <<>>
    /\ pc' = "returned"
    /\ feed' = Tail(feed)
    /\ sample' = {[volts |-> Head(feed).volts,
                   charge_status |-> Head(feed).charge_status,
                   percent |-> get_batt_percent(Head(feed).volts)]}
    /\ UNCHANGED <<i, scroll_sleep, LEDOFF_TIME, DEBOUNCE_TIME, blue_led,
                   green_led, red_led, advertising, mouse_buttons, shown,
                   adv_op, hid, logged, hk, btn, nscroll,
                   outside>>

NextBatt == CallPercent

SpecBatt == InitBatt /\ [][NextBatt]_vars

-----------------------------------------------------------------------------
\* The main loop with a scripted battery: the sensor reads 4.25 V, 3.6 V and
\* 3.4 V on the first three battery signals, never charging.

Scenario2 ==
    <<[volts |-> 425, charge_status |-> FALSE],
      [volts |-> 360, charge_status |-> FALSE],
      [volts |-> 340, charge_status |-> FALSE]>>

InitScenario2 == Start /\ feed = Scenario2 /\ link \in BOOLEAN

SpecScenario2 == InitScenario2 /\ [][Next]_vars

-----------------------------------------------------------------------------
\* The main loop of a user who only scrolls, for up to LongScroll wheel moves
\* in a row, on a full battery; between two ticks the clock moves far enough
\* to end any debounce window.

FullBattery == [volts |-> 425, charge_status |-> FALSE]

ScrollInputs ==
    IF nscroll < LongScroll THEN SUBSET {"scrollup", "scrolldown"} ELSE {{}}

NextScroll ==
    \/ ~link /\ Radio
    \/ Top(link)
    \/ Wait(link)
    \/ Blink
    \/ \E asserted \in ScrollInputs : Tick(FullBattery, asserted)
    \/ Advance(sp_initial)

SpecScroll == Init /\ [][NextScroll]_vars

-----------------------------------------------------------------------------
\* The main loop at the speed of the hardware: blink_interval ticks take
\* longer than the ledoff_delay of 0.1 s, so the tick before a blue blink or a
\* battery signal finds the auto-off deadline of the signal before it expired.

PacedTick(rd, asserted) ==
    /\ Housekeeping(rd).i \in {blink_interval, blink_interval * 2}
           => Housekeeping(rd).ledoff = None
    /\ Tick(rd, asserted)

NextPaced ==
    \/ Radio
    \/ Top(link)
    \/ Wait(link)
    \/ Blink
    \/ Lost
    \/ \E rd \in Readings, asserted \in Pressable : PacedTick(rd, asserted)
    \/ \E value \in BOOLEAN : SpinLeft(value)
    \/ \E value \in BOOLEAN : SpinRight(value)
    \/ \E d \in TimeSteps : Advance(d)

SpecPaced == Init /\ [][NextPaced]_vars

\* The same loop with a user who only clicks Left.  The loop keeps running,
\* the clock keeps moving and a held button is released in the end.

LeftInputs == SUBSET {"left"}

NextSignals ==
    \/ Radio
    \/ Top(link)
    \/ Wait(link)
    \/ Blink
    \/ Lost
    \/ \E rd \in Readings, asserted \in LeftInputs : PacedTick(rd, asserted)
    \/ \E value \in BOOLEAN : SpinLeft(value)
    \/ \E d \in TimeSteps : Advance(d)

SpecSignals ==
    /\ Init
    /\ [][NextSignals]_vars
    /\ WF_vars(\E rd \in Readings, asserted \in LeftInputs :
                   PacedTick(rd, asserted))
    /\ WF_vars(\E d \in TimeSteps : Advance(d))
    /\ WF_vars(SpinLeft(TRUE))

-----------------------------------------------------------------------------
\* The set-up of the battery before the main loop, for any configured charge
\* current from CHARGE_50MA to MaxChargeCurrent, followed by the main loop of
\* a user who only scrolls.  Battery() leaves the charge speed pin an input.

ChargeCurrents == CHARGE_50MA .. MaxChargeCurrent

InitSetup ==
    /\ Boot
    /\ pc = "setup"
    /\ feed = <<>>
    /\ link \in BOOLEAN
    /\ charge_current \in ChargeCurrents
    /\ charge_speed = "INPUT"

\* battery.charge_current = config['charge_current']; an exception ends the
\* program
Setup ==
    /\ pc = "setup"
    /\ \E r \in {charge_current_setter(charge_current, charge_speed)} :
           /\ pc' = IF r.raised THEN "crashed" ELSE "top"
           /\ charge_speed' = r.direction
    /\ adv_op' = "none"
    /\ hid' = <<>>
    /\ logged' = <<>>
    /\ NoTick
    /\ UNCHANGED <<i, scroll_sleep, LEDOFF_TIME, DEBOUNCE_TIME, blue_led,
                   green_led, red_led, advertising, mouse_buttons, feed, shown,
                   nscroll, link, charge_current>>

NextSetup ==
    \/ Setup
    \/ NextScroll

SpecSetup == InitSetup /\ [][NextSetup]_vars

-----------------------------------------------------------------------------
\* Claims

\* the last step was a tick of the connected loop that read the buttons
ButtonTick == hk # "none" /\ pc # "crashed"

ConnectedLoop == {"loop", "spin_left", "spin_right"}

\* C1: start_advertising and stop_advertising alternate, starting with
\* start_advertising: start is called only while the radio is not advertising,
\* once on entering the not-connected branch and never by an iteration of the
\* wait; stop is called only while it is advertising, by the step of the wait
\* that sees the link, so the radio is never left advertising while the
\* connected loop runs.
C1_AdvertisingAlternates ==
    [][/\ adv_op' = "start" => ~advertising /\ pc = "top"
       /\ adv_op' = "stop" => advertising /\ pc = "wait"
       /\ pc = "top" /\ pc' = "wait" => adv_op' = "start"
       /\ pc = "wait" /\ pc' = "loop" => adv_op' = "stop"
       /\ pc \in {"wait", "blink"} /\ pc' \in {"wait", "blink"}
              => adv_op' = "none"
       /\ advertising' = (IF adv_op' = "start" THEN TRUE
                          ELSE IF adv_op' = "stop" THEN FALSE
                          ELSE advertising)
       /\ pc' \in ConnectedLoop => ~advertising']_vars

\* the link comes back after ticks of an earlier connection: advertising is
\* stopped a second time
C1_Witness == adv_op = "stop" /\ pc = "loop" /\ i >= 0 /\ ~advertising

\* C2: one debounce window for all buttons: a tick that reads some button
\* asserted while the window is open (deadline later than the clock) emits no
\* HID event and leaves the deadline as it is; a tick that reads some button
\* asserted when no window is open (no deadline, or deadline not later than the
\* clock) emits an HID event and opens a new window.
C2_SharedDebounceWindow ==
    [][(ButtonTick' /\ btn' # {}) =>
          IF Debouncing(DEBOUNCE_TIME)
          THEN hid' = <<>> /\ DEBOUNCE_TIME' = DEBOUNCE_TIME
          ELSE Len(hid') = 1 /\ Debouncing(DEBOUNCE_TIME')]_vars

\* the left button is refused inside the window a wheel move opened
C2_Witness ==
    /\ ButtonTick
    /\ btn = {"left"}
    /\ hid = <<>>
    /\ nscroll > 0
    /\ Debouncing(DEBOUNCE_TIME)

ClickButtons == {"LEFT_BUTTON", "RIGHT_BUTTON"}

\* C3: for each click button press and release alternate, starting with press:
\* a press is sent only while the button is up in the HID report, a release
\* only while it is down and only by a read of the input that finds it
\* de-asserted; while the input keeps reading asserted nothing is sent; the
\* button is down in the report exactly while the program waits for its
\* release.
C3_PressReleaseAlternate ==
    [][/\ Len(hid') <= 1
       /\ \A b \in ClickButtons :
            /\ hid' = <<Press(b)>> => b \notin mouse_buttons
                                       /\ b \in mouse_buttons'
            /\ hid' = <<Release(b)>> => /\ b \in mouse_buttons
                                         /\ b \notin mouse_buttons'
                                         /\ btn' = {}
                                         /\ pc \in {"spin_left", "spin_right"}
            /\ (b \in mouse_buttons) # (b \in mouse_buttons')
                   => hid' \in {<<Press(b)>>, <<Release(b)>>}
       /\ pc \in {"spin_left", "spin_right"} /\ btn' # {} => hid' = <<>>
       /\ ("LEFT_BUTTON" \in mouse_buttons') = (pc' = "spin_left")
       /\ ("RIGHT_BUTTON" \in mouse_buttons') = (pc' = "spin_right")]_vars

\* the left button is released after a hold that outlasted the debounce window
C3_Witness ==
    /\ hid = <<Release("LEFT_BUTTON")>>
    /\ mouse_buttons = {}
    /\ DEBOUNCE_TIME # None
    /\ ~Debouncing(DEBOUNCE_TIME)

Priority == <<"left", "right", "scrollup", "scrolldown">>

\* the asserted input that comes first in the priority order
Highest(asserted) ==
    Priority[CHOOSE k \in 1..4 :
                /\ Priority[k] \in asserted
                /\ \A j \in 1..(k - 1) : Priority[j] \notin asserted]

\* C4: a tick acts on at most one button, the asserted one that comes first in
\* Left > Right > ScrollUp > ScrollDown: every HID event of the tick belongs to
\* that button, and there is at most one.
C4_ButtonPriority ==
    ButtonTick =>
        /\ Len(hid) <= 1
        /\ btn = {} => hid = <<>>
        /\ \A k \in DOMAIN hid : ButtonOf(hid[k]) = Highest(btn)

\* Left and ScrollUp asserted together: only the left press
C4_Witness ==
    /\ ButtonTick
    /\ btn = {"left", "scrollup"}
    /\ hid = <<Press("LEFT_BUTTON")>>

\* sp_initial - N*sp_accel, not below sp_max
IntervalAfter(n) == Max(sp_initial - n * sp_accel, sp_max)

\* C5: after nscroll accepted scroll actions since the interval was last
\* sp_initial the interval is max(sp_initial - nscroll*sp_accel, sp_max), the
\* window an accepted scroll action opens is that interval, and the interval is
\* never below sp_max.
C5_ScrollAcceleration ==
    /\ scroll_sleep = IntervalAfter(nscroll)
    /\ scroll_sleep >= sp_max
    /\ (ButtonTick /\ hid # <<>> /\ hid[1].op = "move")
           => DEBOUNCE_TIME = get_delay_time(IntervalAfter(nscroll))

\* the thirteenth wheel move in a row: the interval has reached the floor
C5_Witness ==
    /\ ButtonTick
    /\ hid = <<Move("wheel=1")>>
    /\ nscroll = 13
    /\ scroll_sleep = sp_max
    /\ sp_initial - nscroll * sp_accel < sp_max

-----------------------------------------------------------------------------
\* the battery sample s has a percent, and it is p
Returned(s, p) == s.percent = {p}

\* C6: get_batt_percent returns an integer from 0 to 100 for every voltage,
\* 100 from 4.2 V up and 0 below 3.5 V.
C6_PercentRange ==
    \A s \in sample :
        /\ \E p \in 0..100 : Returned(s, p)
        /\ s.volts >= 420 => Returned(s, 100)
        /\ s.volts < 350 => Returned(s, 0)

\* the table voltages that are not above v
NotAbove(v) == {k \in DOMAIN batt_table : k <= v}

Greatest(keys) == CHOOSE k \in keys : \A j \in keys : j <= k

\* C7: get_batt_percent returns, for every voltage, the percent of the greatest
\* table voltage that is not above it, and so it never returns less for a
\* higher voltage.
C7_PercentFloor ==
    \A s \in sample :
        /\ \E p \in 0..100 : Returned(s, p)
        /\ NotAbove(s.volts) # {}
               => Returned(s, batt_table[Greatest(NotAbove(s.volts))])
        /\ \A v \in Volts : \A p \in s.percent :
               v >= s.volts => \E q \in get_batt_percent(v) : p <= q

\* the LEDs the battery signal is documented to show for a sample; a voltage
\* below the table counts as 0 percent
Documented(s) ==
    LET p == IF s.percent = None THEN 0 ELSE CHOOSE x \in s.percent : TRUE
    IN  IF s.charge_status \/ p > 79 THEN {"green"}
        ELSE IF p > 29 THEN {"green", "red"}
        ELSE {"red"}

\* C8: right after a tick has run battery_leds, exactly the documented LEDs
\* are lit: green alone when charging or above 79 percent, green and red from
\* 30 to 79 percent, red alone up to 29 percent.
C8_BatteryPattern ==
    hk = "battery" => \A s \in sample : LitNow = Documented(s)

Scenario2Patterns == <<{"green"}, {"green", "red"}, {"red"}>>

\* C9: the battery signals on 4.25 V, 3.6 V and 3.4 V, never charging, show
\* green alone, then green and red, then red alone, and none of the three
\* samples ends the program.
C9_Scenario2 ==
    /\ \A k \in DOMAIN shown : k <= 3 => shown[k] = Scenario2Patterns[k]
    /\ ~(pc = "crashed" /\ Len(shown) < 3)

\* the housekeeping branch the counter and the auto-off deadline select
Branch ==
    IF i = blink_interval * 2 THEN "blink"
    ELSE IF i = blink_interval THEN "battery"
    ELSE IF i % debug_interval = 0 THEN "debug"
    ELSE IF Expired(LEDOFF_TIME) THEN "lightsout"
    ELSE "idle"

AllOff == blue_led = TRUE /\ green_led = TRUE /\ red_led = TRUE

\* C10, as claimed: every tick whose counter matches neither the blink nor the
\* battery threshold, with the auto-off deadline present and passed, clears the
\* deadline and turns all three LEDs off.
C10_ExpiredAlwaysCleared ==
    [][(hk' # "none" /\ i # blink_interval * 2 /\ i # blink_interval
          /\ Expired(LEDOFF_TIME))
         => LEDOFF_TIME' = None /\ AllOff']_vars

\* C10, amended: every tick takes exactly one housekeeping branch, in the
\* order blink, battery signal, debug log line, clearing a passed deadline,
\* nothing.  The blink lights the blue LED and sets the deadline; the battery
\* signal leaves the blue LED alone and sets the deadline unless it ends the
\* program; the debug line and the idle branch change no LED and no deadline;
\* a tick whose counter matches neither threshold and is not a multiple of the
\* debug period, with the deadline present and strictly passed, clears the
\* deadline and turns all three LEDs off.
C10_HousekeepingDispatch ==
    [][hk' # "none" =>
         /\ hk' = Branch
         /\ Branch = "blink" =>
                /\ blue_led' = FALSE
                /\ LEDOFF_TIME' = get_delay_time(ledoff_delay)
                /\ UNCHANGED <<green_led, red_led>>
         /\ Branch = "battery" =>
                /\ UNCHANGED blue_led
                /\ \/ pc' = "crashed" /\ UNCHANGED LEDOFF_TIME
                   \/ LEDOFF_TIME' = get_delay_time(ledoff_delay)
         /\ Branch \in {"debug", "idle"} =>
                UNCHANGED <<LEDOFF_TIME, blue_led, green_led, red_led>>
         /\ (i # blink_interval * 2 /\ i # blink_interval
               /\ i % debug_interval # 0 /\ Expired(LEDOFF_TIME))
                => LEDOFF_TIME' = None /\ AllOff']_vars

\* a tick has switched off the LEDs of a battery signal whose deadline passed
C10_Witness ==
    /\ hk = "lightsout"
    /\ LEDOFF_TIME = None
    /\ AllOff
    /\ i = blink_interval + 2

ScrollButtons == {"scrollup", "scrolldown"}

\* the last step logged 'scroll_sleep reset'
ResetLogged == \E k \in DOMAIN logged : logged[k] = "scroll_sleep reset"

\* C11: the reset is idempotent: a tick with no scroll button asserted that
\* starts with scroll_sleep at sp_initial leaves it there and logs no
\* 'scroll_sleep reset'; a tick logs the reset only when it brings scroll_sleep
\* back to sp_initial from another value.
C11_ResetIdempotent ==
    [][ButtonTick' =>
         /\ (scroll_sleep = sp_initial /\ btn' \cap ScrollButtons = {})
                => (scroll_sleep' = sp_initial /\ ~ResetLogged')
         /\ ResetLogged'
                => (scroll_sleep # sp_initial /\ scroll_sleep' = sp_initial)]_vars

\* an idle tick inside the debounce window of a click finds scroll_sleep at
\* sp_initial and logs nothing
C11_Witness ==
    /\ ButtonTick
    /\ btn = {}
    /\ scroll_sleep = sp_initial
    /\ logged = <<>>
    /\ Debouncing(DEBOUNCE_TIME)

\* C12, as claimed: once the radio is not connected, the connected loop emits
\* no further HID event and runs no further housekeeping, also while a click
\* button is held.
C12_NothingAfterLinkLoss ==
    [][(~link /\ pc \in ConnectedLoop) => (hid' = <<>> /\ hk' = "none")]_vars

\* C12, amended: while the radio is not connected no tick runs (no
\* housekeeping, no press, no wheel move): at the top of the loop body the
\* program can only leave the connected loop, and from there only start
\* advertising.  A click in progress is finished first: while the program
\* waits for the release of a held click button it does not look at the radio,
\* and the only HID event it can still send is the release of that button.
C12_LinkLossLeavesLoop ==
    [][~link =>
         /\ hk' = "none"
         /\ pc = "loop" => (hid' = <<>> /\ pc' \in {"loop", "top"})
         /\ pc = "spin_left"
                => (hid' \in {<<>>, <<Release("LEFT_BUTTON")>>}
                      /\ pc' \in {"spin_left", "loop"})
         /\ pc = "spin_right"
                => (hid' \in {<<>>, <<Release("RIGHT_BUTTON")>>}
                      /\ pc' \in {"spin_right", "loop"})
         /\ pc = "top" => (hid' = <<>> /\ pc' \in {"top", "wait"})]_vars

\* the loop was left on a lost link right after the release of a click
C12_Witness ==
    /\ pc = "top"
    /\ ~link
    /\ logged = <<"Not Connected (lost connection)">>
    /\ hid = <<>>
    /\ DEBOUNCE_TIME = get_delay_time(debounce_sleep)

\* C13: whenever battery_leds runs with the charge flag true, whatever the
\* voltage, it lights the green LED, leaves the red LED as it was and returns
\* normally.
C13_ChargingLightsGreen ==
    [][(hk' = "battery" /\ \E s \in sample' : s.charge_status)
         => (pc' # "crashed" /\ green_led' = FALSE /\ red_led' = red_led)]_vars

\* C14: the blue LED is never lit while the green or the red LED is lit.
C14_OneSignalAtATime ==
    ~("blue" \in LitNow /\ LitNow \cap {"green", "red"} # {})

ValidCurrents == {CHARGE_50MA, CHARGE_100MA}

\* C15: a configured charge current other than CHARGE_50MA and CHARGE_100MA
\* ends the program in the set-up: the setter raises, the charge speed pin keeps
\* the direction Battery() gave it, advertising is never started and no HID
\* event is ever sent.
C15_InvalidChargeCurrentFatal ==
    (charge_current \notin ValidCurrents /\ pc # "setup")
        => /\ pc = "crashed"
           /\ charge_speed = "INPUT"
           /\ ~advertising
           /\ adv_op = "none"
           /\ hid = <<>>
           /\ mouse_buttons = {}

\* the set-up has ended the program on a charge current of 2
C15_Witness ==
    /\ pc = "crashed"
    /\ charge_current = CHARGE_100MA + 1
    /\ charge_speed = "INPUT"
    /\ ~advertising

\* the last step was a tick that fired the blue blink or a battery signal
Signal == hk \in {"blink", "battery"} /\ pc # "crashed"

ScrollTaken ==
    /\ ButtonTick'
    /\ btn' \cap {"left", "right"} = {}
    /\ btn' \cap ScrollButtons # {}
    /\ ~Debouncing(DEBOUNCE_TIME)

\* the wheel move of a tick that reads these inputs
WheelOf(asserted) ==
    IF "scrollup" \in asserted THEN Move("wheel=1") ELSE Move("wheel=-1")

\* C17, as claimed: an accepted scroll sends exactly one wheel move and sets
\* the debounce deadline to now plus the scroll interval as it was before the
\* decrement; the interval is then shortened by sp_accel, not below sp_max.
C17_ArmsBeforeDecrement ==
    [][ScrollTaken =>
         /\ hid' = <<WheelOf(btn')>>
         /\ DEBOUNCE_TIME' = get_delay_time(scroll_sleep)
         /\ scroll_sleep' = Max(scroll_sleep - sp_accel, sp_max)]_vars

\* C17, amended: an accepted scroll sends exactly one wheel move (+1 for
\* ScrollUp, -1 for ScrollDown), shortens the scroll interval by sp_accel, not
\* below sp_max, and leaves the debounce deadline at now plus the shortened
\* interval.
C17_ArmsAfterDecrement ==
    [][ScrollTaken =>
         /\ hid' = <<WheelOf(btn')>>
         /\ scroll_sleep' = Max(scroll_sleep - sp_accel, sp_max)
         /\ DEBOUNCE_TIME' = get_delay_time(scroll_sleep')]_vars

\* the first scroll after a reset: one wheel move up, the window is
\* sp_initial - sp_accel
C17_Witness ==
    /\ ButtonTick
    /\ hid = <<Move("wheel=1")>>
    /\ nscroll = 1
    /\ scroll_sleep = sp_initial - sp_accel
    /\ DEBOUNCE_TIME = get_delay_time(sp_initial - sp_accel)

\* C18, as claimed: after every tick in which neither scroll button is
\* asserted the scroll interval is sp_initial, whatever Left and Right do.
C18_ResetWithoutScrollInput ==
    (ButtonTick /\ btn \cap ScrollButtons = {}) => scroll_sleep = sp_initial

\* C18, amended: after every tick in which no button at all is asserted the
\* scroll interval is sp_initial; a tick in which Left or Right is asserted
\* leaves the scroll interval as it was.
C18_ResetWhenIdle ==
    [][ButtonTick' =>
         /\ btn' = {} => scroll_sleep' = sp_initial
         /\ btn' \cap {"left", "right"} # {} => UNCHANGED scroll_sleep]_vars

\* an idle tick has brought the scroll interval back to sp_initial
C18_Witness ==
    /\ ButtonTick
    /\ btn = {}
    /\ ResetLogged
    /\ scroll_sleep = sp_initial
    /\ nscroll = 0

\* C19, as claimed: a tick inside the debounce window sends no HID event and
\* leaves the debounce deadline and the scroll interval unchanged, whatever the
\* inputs.
C19_WindowSkipsEverything ==
    [][(ButtonTick' /\ Debouncing(DEBOUNCE_TIME))
         => (hid' = <<>> /\ UNCHANGED <<DEBOUNCE_TIME, scroll_sleep>>)]_vars

\* C19, amended: inside the debounce window a tick in which any button is
\* asserted sends no HID event and leaves the debounce deadline, the scroll
\* interval and the HID buttons unchanged; a tick in which no button is
\* asserted sends no HID event and leaves the deadline unchanged, but still
\* resets the scroll interval to sp_initial.
C19_WindowSkipsAssertedButtons ==
    [][(ButtonTick' /\ Debouncing(DEBOUNCE_TIME)) =>
         /\ hid' = <<>>
         /\ pc' = "loop"
         /\ UNCHANGED <<DEBOUNCE_TIME, mouse_buttons>>
         /\ btn' # {} => UNCHANGED scroll_sleep
         /\ btn' = {} => scroll_sleep' = sp_initial]_vars

\* a tick reads ScrollUp inside the window of the scroll before it and does
\* nothing
C19_Witness ==
    /\ ButtonTick
    /\ btn = {"scrollup"}
    /\ hid = <<>>
    /\ Debouncing(DEBOUNCE_TIME)
    /\ scroll_sleep = sp_initial - sp_accel

\* C20: when a click button is released the debounce window lasts
\* debounce_sleep from that moment, however long the button was held.
C20_SuppressedAfterRelease ==
    \A b \in ClickButtons :
        hid = <<Release(b)>> => DEBOUNCE_TIME = get_delay_time(debounce_sleep)

\* C21: in the connected loop, between two ticks, an LED is lit exactly when
\* the auto-off deadline is present; the deadline is cleared only by the tick
\* that turns all LEDs off, and a tick that lights an LED sets the deadline to
\* 0.1 s from now.
C21_LitIffDeadline ==
    /\ [](pc \in ConnectedLoop => (LitNow # {} <=> LEDOFF_TIME # None))
    /\ [][/\ (LEDOFF_TIME # None /\ LEDOFF_TIME' = None)
                 => (hk' = "lightsout" /\ AllOff')
          /\ (pc \in ConnectedLoop /\ AllOff' /\ ~AllOff)
                 => (hk' = "lightsout" /\ LEDOFF_TIME' = None)
          /\ (pc \in ConnectedLoop /\ ~(LitNow' \subseteq LitNow))
                 => LEDOFF_TIME' = get_delay_time(ledoff_delay)]_vars

\* C22: no HID event is sent between a call of start_advertising and the
\* call of stop_advertising that follows it: a step that sends a press, a
\* release or a wheel move starts and ends with the radio not advertising and
\* calls neither.
C22_NoHidWhileAdvertising ==
    [][hid' # <<>>
         => (~advertising /\ ~advertising' /\ adv_op' = "none"
               /\ pc \in ConnectedLoop)]_vars

\* a press is sent with the radio connected and not advertising
C22_Witness ==
    /\ hid = <<Press("LEFT_BUTTON")>>
    /\ pc = "spin_left"
    /\ ~advertising
    /\ link

====
